---- MODULE Spec2Model ----
(***************************************************************************)
(* A model of var_inspector.py: the VarInspector callable, which reports   *)
(* either the global bindings or the overview and attributes of one        *)
(* object, under two temporarily overridden pandas display options.        *)
(*                                                                         *)
(* Strings the code inspects character by character (binding and attribute *)
(* names) are sequences of code points; strings the code only passes on    *)
(* (type names, placeholders, reprs, docs) are TLA+ strings.               *)
(* Library calls (pandas options, inspect, len, getattr) are modelled by   *)
(* their outcome: a result or the exception they raise.  The rendering     *)
(* sink display() is taken to be available, as in an IPython session.      *)
(***************************************************************************)
EXTENDS Integers, Sequences, FiniteSets, TLC

\* Largest number of bindings in an enumerated namespace.
MaxBindings == 3
\* Largest number of attributes in an inspected object's directory.
MaxAttrs == 2

----------------------------------------------------------------------------
(* Strings as code-point sequences *)

Underscore == <<95>>

\* str.startswith
StartsWith(s, p) == Len(p) <= Len(s) /\ SubSeq(s, 1, Len(p)) = p

\* str.endswith
EndsWith(s, p) ==
    Len(p) <= Len(s) /\ SubSeq(s, Len(s) - Len(p) + 1, Len(s)) = p

\* str.lower on ASCII letters
Lower(s) == [i \in 1..Len(s) |-> IF s[i] \in 65..90 THEN s[i] + 32 ELSE s[i]]

\* s < t in Python's string order (lexicographic by code point)
StrLess(s, t) ==
    \E i \in 1..(Len(s) + 1) :
        /\ i <= Len(t)
        /\ SubSeq(s, 1, i - 1) = SubSeq(t, 1, i - 1)
        /\ (i = Len(s) + 1 \/ s[i] < t[i])

Reverse(s) == [i \in 1..Len(s) |-> s[Len(s) + 1 - i]]

----------------------------------------------------------------------------
(* Values *)

\* Cells that hold either a number or the absence marker "-".
Dash == <<"-">>
IntCell(n) == <<"int", n>>

\* The exception in flight: none, or its name, the step that raised it
\* and (in the attribute loop) the directory index it was raised at.
NoExc == <<"none", "", 0>>
Exc(name, at, i) == <<name, at, i>>

\* A runtime value, by what the code asks of it:
\*   type     type(v).__name__
\*   isa      which of ModuleType / FunctionType / BuiltinFunctionType it is
\*   callable callable(v)
\*   sized    "no": not a Sized; "yes": len(v) = n; otherwise the exception
\*            len(v) raises although v is a Sized
\*   bytes    sys.getsizeof(v)
\*   repr     repr(v);  doc: inspect.getdoc(v), "" when there is none
\*   sig      "ok": str(inspect.signature(v)) = sigstr; otherwise the
\*            exception inspect.signature(v) raises
Val(type, isa, callable, sized, n, bytes, repr, doc, sig, sigstr) ==
    [type |-> type, isa |-> isa, callable |-> callable, sized |-> sized,
     n |-> n, bytes |-> bytes, repr |-> repr, doc |-> doc, sig |-> sig,
     sigstr |-> sigstr]

V_int == Val("int", "other", FALSE, "no", 0, 28, "10", "int([x]) -> integer", "-", "")
V_list == Val("list", "other", FALSE, "yes", 3, 88, "[1, 2, 3]", "Built-in mutable sequence.", "-", "")
V_str == Val("str", "other", FALSE, "yes", 13, 62, "'Hello, world!'", "str(object='') -> str", "-", "")
V_big == Val("bytes", "other", FALSE, "yes", 8000000, 8000033, "b'...'", "bytes(iterable_of_ints) -> bytes", "-", "")
\* a 0-d numpy array: a Sized whose len() raises TypeError
V_array0d == Val("ndarray", "other", FALSE, "TypeError", 0, 104, "array(5)", "ndarray(shape)", "-", "")
\* a Sized whose __len__ reads an attribute that is missing: AttributeError
V_attrlen == Val("Lazy", "other", FALSE, "AttributeError", 0, 48, "<Lazy object>", "", "-", "")
\* an object whose __len__ returns a negative number
V_neglen == Val("NegLen", "other", FALSE, "ValueError", 0, 48, "<NegLen object>", "", "-", "")
V_func == Val("function", "function", TRUE, "no", 0, 160, "<function f>", "", "ok", "(x, y=1)")
V_module == Val("module", "module", FALSE, "no", 0, 72, "<module 'sys' (built-in)>", "System module.", "-", "")
V_builtin == Val("builtin_function_or_method", "builtin", TRUE, "no", 0, 72, "<built-in function len>", "Return the number of items in a container.", "ok", "(obj, /)")
\* a bound method with a docstring
V_method == Val("method", "other", TRUE, "no", 0, 64, "<bound method T.run>", "Run it.", "ok", "(n)")
\* a built-in class such as int or range: no signature, ValueError
V_class == Val("type", "other", TRUE, "no", 0, 408, "<class 'range'>", "range(stop) -> range object", "ValueError", "")
\* a callable whose __signature__ is not a Signature: TypeError
V_badsig == Val("BadSig", "other", TRUE, "no", 0, 48, "<BadSig object>", "", "TypeError", "")

Values ==
    {V_int, V_list, V_str, V_big, V_array0d, V_attrlen, V_neglen, V_func, V_module,
     V_builtin, V_method, V_class, V_badsig}

----------------------------------------------------------------------------
(* Shared helpers *)

\* _format_value: repr(value)
FormatValue(v) == v.repr

\* f"{x:.2f}" of bytes / 1024**2: hundredths, rounded half to even
Hundredths(bytes) ==
    LET q == (bytes * 100) \div 1048576
        r == (bytes * 100) % 1048576
    IN IF 2 * r > 1048576 \/ (2 * r = 1048576 /\ q % 2 = 1) THEN q + 1 ELSE q

\* _get_size_mb, formatted: <<"num", whole, hundredths>>
SizeMB(v) == <<"num", Hundredths(v.bytes) \div 100, Hundredths(v.bytes) % 100>>

\* _get_length: len(obj) for a Sized, else "-"; what len() raises propagates
GetLength(v) ==
    IF v.sized = "no" THEN [exc |-> "none", val |-> Dash]
    ELSE IF v.sized = "yes" THEN [exc |-> "none", val |-> IntCell(v.n)]
    ELSE [exc |-> v.sized, val |-> Dash]

----------------------------------------------------------------------------
(* Namespaces: a dict of bindings, in insertion order *)

Binding(name, value) == [name |-> name, value |-> value]

\* "A", "a", "b", "c", "In", "c_", "f", "m", "l", "z"
Bindings ==
    {Binding(<<65>>, V_list), Binding(<<97>>, V_int), Binding(<<98>>, V_int),
     Binding(<<99>>, V_str), Binding(<<73, 110>>, V_list),
     Binding(<<99, 95>>, V_int), Binding(<<102>>, V_func),
     Binding(<<109>>, V_module), Binding(<<108>>, V_builtin),
     Binding(<<122>>, V_array0d)}

Names(ns) == [i \in 1..Len(ns) |-> ns[i].name]

\* dict keys are unique
Namespaces ==
    {ns \in UNION {[1..n -> Bindings] : n \in 0..MaxBindings} :
        \A i, j \in 1..Len(ns) : ns[i].name = ns[j].name => i = j}

\* The globals of a module that imported view_var and calls it.
ImporterNamespaces ==
    {<<Binding(<<97>>, V_int)>>, <<Binding(<<98>>, V_int), Binding(<<65>>, V_list)>>}

\* The environment of a call: the globals of the module defining
\* VarInspector, who calls ("module": code of that module, as when the
\* class is defined in the calling session itself; "importer": a module that
\* imported view_var, as the docstring and the cells of lines 265-285 do),
\* and the caller's globals.
Env(module_globals, caller, caller_globals) ==
    [module_globals |-> module_globals, caller |-> caller,
     caller_globals |-> caller_globals]

Envs ==
    {Env(ns, "module", ns) : ns \in Namespaces}
    \cup {Env(ns, "importer", cg) :
             ns \in {m \in Namespaces : Len(m) <= 2}, cg \in ImporterNamespaces}

\* globals() inside _display_globals: the globals of the module the function
\* was defined in, whoever calls
Globals(env) == env.module_globals

----------------------------------------------------------------------------
(* pandas display options *)

NoneOpt == <<"None", 0>>
IntOpt(n) == <<"int", n>>
FloatOpt(n) == <<"float", n>>

\* the validator of display.max_colwidth: None or a non-negative int
ValidColwidth(v) == v = NoneOpt \/ (v[1] = "int" /\ v[2] >= 0)

\* the validator of display.max_rows: None or an int
ValidRows(v) == v = NoneOpt \/ v[1] = "int"

\* the ambient options before any call: pandas' defaults, or a user's own
AmbientOptions ==
    {[max_colwidth |-> IntOpt(50), max_rows |-> IntOpt(60)],
     [max_colwidth |-> IntOpt(100), max_rows |-> NoneOpt]}

----------------------------------------------------------------------------
(* Construction *)

NoArg == {<<>>}

\* "In", "Out", "_", "exit", "quit", "get_ipython"
DefaultExcludeNames ==
    {<<73, 110>>, <<79, 117, 116>>, <<95>>, <<101, 120, 105, 116>>,
     <<113, 117, 105, 116>>,
     <<103, 101, 116, 95, 105, 112, 121, 116, 104, 111, 110>>}

\* VarInspector.__init__; ambient_rows is pd.get_option("display.max_rows")
VarInspector(exclude_names, descending, max_str_length, max_rows, ambient_rows) ==
    [exclude_names |-> IF exclude_names = NoArg THEN DefaultExcludeNames
                       ELSE exclude_names,
     descending |-> descending,
     max_str_length |-> max_str_length,
     max_rows |-> IF max_rows # NoneOpt THEN max_rows ELSE ambient_rows]

\* The inspectors constructed: the module's view_var; one with its own
\* prefix {"c"}, descending, max_rows=None; one given a float max_rows; one
\* given a negative max_str_length.
Inspectors(ambient_rows) ==
    {VarInspector(NoArg, FALSE, IntOpt(300), IntOpt(300), ambient_rows),
     VarInspector({<<99>>}, TRUE, IntOpt(20), NoneOpt, ambient_rows),
     VarInspector(NoArg, FALSE, IntOpt(300), FloatOpt(2), ambient_rows),
     VarInspector(NoArg, TRUE, IntOpt(0 - 1), IntOpt(300), ambient_rows)}

----------------------------------------------------------------------------
(* _display_globals *)

\* the comprehension's condition without its last test, name.endswith("_")
Included_NoSuffixTest(name, value, include_advanced_details, exclude_names) ==
    \/ include_advanced_details
    \/ /\ ~ \E exclude \in exclude_names : StartsWith(name, exclude)
       /\ value.isa \notin {"module", "function", "builtin"}

\* the comprehension's condition, lines 157-171
Included(name, value, include_advanced_details, exclude_names) ==
    \/ include_advanced_details
    \/ /\ ~ \E exclude \in exclude_names : StartsWith(name, exclude)
       /\ value.isa \notin {"module", "function", "builtin"}
       /\ ~ EndsWith(name, Underscore)

\* global_vars, lines 154-172: the bindings kept, in the dict's order
GlobalVars(ns, include_advanced_details, exclude_names) ==
    LET Keep(b) == Included(b.name, b.value, include_advanced_details, exclude_names)
    IN SelectSeq(ns, Keep)

\* list.sort on <<key, item>> pairs, ascending: stable, so an item goes
\* after every item already placed whose key is not greater
InsertStable(x, sorted) ==
    LET k == Cardinality({i \in 1..Len(sorted) : ~ StrLess(x[1], sorted[i][1])})
    IN SubSeq(sorted, 1, k) \o <<x>> \o SubSeq(sorted, k + 1, Len(sorted))

RECURSIVE StableSort(_)
StableSort(pairs) ==
    IF pairs = <<>> THEN <<>>
    ELSE InsertStable(pairs[Len(pairs)], StableSort(SubSeq(pairs, 1, Len(pairs) - 1)))

\* sorted(iterable, key=..., reverse=...): with reverse the list is reversed,
\* sorted and reversed again, which keeps equal keys in their first order
Sorted(pairs, reverse) ==
    LET out == IF reverse THEN Reverse(StableSort(Reverse(pairs)))
               ELSE StableSort(pairs)
    IN [i \in 1..Len(out) |-> out[i][2]]

\* sorted_vars with the key x[0] in place of x[0].lower()
SortedVars_CaseSensitive(global_vars, descending) ==
    Sorted([i \in 1..Len(global_vars) |-> <<global_vars[i].name, global_vars[i]>>],
           descending)

\* sorted_vars, lines 173-175
SortedVars(global_vars, descending) ==
    Sorted([i \in 1..Len(global_vars) |->
                <<Lower(global_vars[i].name), global_vars[i]>>],
           descending)

\* one row of the table, lines 177-185
GlobalRow(b) ==
    [Name |-> b.name, Type |-> b.value.type, Size |-> SizeMB(b.value),
     Len |-> GetLength(b.value).val, Value |-> FormatValue(b.value)]

\* the loop of lines 176-185: the rows built before the first binding whose
\* _get_length raises, and that exception
GlobalRows(sorted_vars) ==
    LET bad == {i \in 1..Len(sorted_vars) : GetLength(sorted_vars[i].value).exc # "none"}
        stop == IF bad = {} THEN Len(sorted_vars) + 1
                ELSE CHOOSE i \in bad : \A j \in bad : i <= j
    IN [exc |-> IF bad = {} THEN NoExc
                ELSE Exc(GetLength(sorted_vars[stop].value).exc, "globals", stop),
        rows |-> [i \in 1..(stop - 1) |-> GlobalRow(sorted_vars[i])]]

----------------------------------------------------------------------------
(* Inspected objects *)

\* What inspect answers for an object:
\*   getmodule       "ok": a module named module_name; "none": None;
\*                   otherwise the exception inspect.getmodule raises
\*   has_code        hasattr(obj, "__code__")
\*   getsourcefile   "ok": source_file; otherwise the exception raised
\*   getfile         "ok": file_path; otherwise the exception raised
\*   getsourcelines  "ok": (lines, lnum); otherwise the exception raised
\*   doc             inspect.getdoc(obj), "" when there is none
\*   attrs           name -> [get, value]: getattr(obj, name) returns value
\*                   (get = "ok") or raises the exception get names
Object(type, gm, name, code, gsf, source, gf, path, gsl, lnum, bytes, doc, attrs) ==
    [kind |-> "object", type |-> type, getmodule |-> gm,
     module_name |-> name, has_code |-> code,
     getsourcefile |-> gsf, source_file |-> source,
     getfile |-> gf, file_path |-> path,
     getsourcelines |-> gsl, lnum |-> lnum, bytes |-> bytes,
     doc |-> doc, attrs |-> attrs]

\* some_variable = [1, 2, 3]
O_list(attrs) ==
    Object("list", "none", "", FALSE, "ok", "", "TypeError", "", "ok", 0, 88,
           "Built-in mutable sequence.", attrs)
\* an instance of a class of the session
O_instance(attrs) ==
    Object("T", "ok", "__main__", FALSE, "ok", "", "TypeError", "", "ok", 0, 48,
           "", attrs)
\* a function defined in a source file
O_function(attrs) ==
    Object("function", "ok", "mymod", TRUE, "ok", "/src/mymod.py", "ok",
           "/src/mymod.py", "ok", 12, 160, "Do it.", attrs)
\* a function typed into the session: its source cannot be read
O_typed_function(attrs) ==
    Object("function", "ok", "__main__", TRUE, "ok", "<stdin>", "ok", "<stdin>",
           "OSError", 0, 160, "", attrs)
\* an instance of a class whose __module__ is unhashable:
\* sys.modules.get(obj.__module__) raises TypeError inside getmodule
O_unhashable_module(attrs) ==
    Object("BadMod", "TypeError", "", FALSE, "ok", "", "TypeError", "", "ok", 0,
           48, "", attrs)
\* a class defined in the session (__main__ has no __file__): getfile
\* raises OSError
O_session_class(attrs) ==
    Object("type", "ok", "__main__", FALSE, "ok", "", "OSError", "", "ok", 0, 1064,
           "", attrs)
\* an instance with a __code__ attribute that is no code object
O_fake_code(attrs) ==
    Object("FakeCode", "ok", "__main__", TRUE, "TypeError", "", "TypeError", "",
           "TypeError", 0, 48, "", attrs)

Attr(get, value) == [get |-> get, value |-> value]

\* "Y", "_p", "x"
AttrNames == {<<89>>, <<95, 112>>, <<120>>}

AttrEntries ==
    {Attr("ok", v) :
        v \in {V_int, V_list, V_array0d, V_attrlen, V_method, V_class, V_badsig}}
    \cup {Attr("AttributeError", V_int), Attr("ZeroDivisionError", V_int)}

AttrMaps ==
    UNION {[S -> AttrEntries] :
             S \in {T \in SUBSET AttrNames : Cardinality(T) <= MaxAttrs}}

Targets ==
    UNION {{O_list(a), O_instance(a), O_function(a), O_typed_function(a),
            O_unhashable_module(a), O_fake_code(a), O_session_class(a)} :
             a \in AttrMaps}

\* dir(obj): the attribute names, sorted
Dir(obj) ==
    LET S == DOMAIN obj.attrs
    IN CHOOSE d \in [1..Cardinality(S) -> S] :
          \A i, j \in 1..Cardinality(S) : i < j => StrLess(d[i], d[j])

----------------------------------------------------------------------------
(* _display_overview *)

\* lines 107-146: the three guarded queries and the record.  The first
\* block catches TypeError (of getmodule or getsourcefile), the second
\* TypeError (of getfile), the third OSError (of getsourcelines); any other
\* exception of a query leaves the method, the earliest query first.
Overview(obj) ==
    LET module_bound == obj.getmodule # "TypeError"
        module_name == IF obj.getmodule = "ok" THEN obj.module_name
                       ELSE "Unknown module"
        source_file ==
            IF obj.getmodule = "TypeError" THEN "Source file not applicable"
            ELSE IF ~ obj.has_code THEN "Source file not available"
            ELSE IF obj.getsourcefile = "TypeError" THEN "Source file not applicable"
            ELSE obj.source_file
        file_path == IF obj.getfile = "TypeError" THEN "File not applicable"
                     ELSE obj.file_path
        lnum == IF obj.has_code /\ obj.getsourcelines = "ok" THEN obj.lnum ELSE 0
        record ==
            [Type |-> obj.type, Module |-> module_name,
             SourceFile |-> source_file, FilePath |-> file_path,
             SourceLines |-> IF lnum # 0 THEN <<"Starts at line", lnum>>
                             ELSE <<"No source line info", 0>>,
             Size |-> <<"num", Hundredths(obj.bytes) \div 100,
                        Hundredths(obj.bytes) % 100>>,
             Doc |-> IF obj.doc # "" THEN obj.doc
                     ELSE "No documentation available"]
    IN IF obj.getmodule \notin {"ok", "none", "TypeError"}
       THEN [exc |-> Exc(obj.getmodule, "overview", 0), record |-> record]
       ELSE IF /\ obj.getmodule # "TypeError"
               /\ obj.has_code
               /\ obj.getsourcefile \notin {"ok", "TypeError"}
       THEN [exc |-> Exc(obj.getsourcefile, "overview", 0), record |-> record]
       ELSE IF obj.getfile \notin {"ok", "TypeError"}
       THEN [exc |-> Exc(obj.getfile, "overview", 0), record |-> record]
       ELSE IF obj.has_code /\ obj.getsourcelines \notin {"ok", "OSError"}
       THEN [exc |-> Exc(obj.getsourcelines, "overview", 0), record |-> record]
       ELSE IF ~ module_bound
       THEN [exc |-> Exc("UnboundLocalError", "overview", 0), record |-> record]
       ELSE [exc |-> NoExc, record |-> record]

----------------------------------------------------------------------------
(* _display_attributes *)

\* the name filter, line 192
AttrEligible(attr, include_advanced_details) ==
    include_advanced_details \/ ~ StartsWith(attr, Underscore)

\* lines 195-221: the row of a value that was read, or the exception raised
\* while building it
AttrRow(attr, value) ==
    IF value.callable
    THEN [exc |-> IF value.sig \in {"ok", "ValueError"} THEN "none" ELSE value.sig,
          row |-> [Name |-> attr, Type |-> "Method",
                   Signature |-> IF value.sig = "ok" THEN value.sigstr ELSE "N/A",
                   Size |-> Dash, Len |-> Dash,
                   Value |-> IF value.doc # "" THEN value.doc
                             ELSE "No documentation available"]]
    ELSE [exc |-> GetLength(value).exc,
          row |-> [Name |-> attr, Type |-> value.type, Signature |-> "-",
                   Size |-> SizeMB(value), Len |-> GetLength(value).val,
                   Value |-> FormatValue(value)]]

----------------------------------------------------------------------------
(* State *)

VARIABLES
    opts,        \* pandas' display.max_colwidth and display.max_rows
    insp,        \* the VarInspector called
    pc,          \* where the call is: idle, globals, overview, attributes,
                 \* finally, exit
    call,        \* the arguments and environment of the call
    original,    \* original_max_colwidth, original_max_rows
    enumerated,  \* the namespace _display_globals enumerated
    global_vars, \* the bindings it kept
    data,        \* the rows of the table being built
    attr_idx,    \* the place of the attribute loop in dir(obj)
    rendered,    \* the tables displayed by this call, each with the options
                 \* in force when it was displayed
    printed,     \* the lines printed by this call
    raised,      \* the exception in flight or propagated by this call
    probe        \* the last direct call of _get_length and its outcome

vars ==
    <<opts, insp, pc, call, original, enumerated, global_vars, data, attr_idx,
      rendered, printed, raised, probe>>

\* var=None
None == [kind |-> "None"]

\* an object report reads no namespace
NoEnv == Env(<<>>, "module", <<>>)

NoCall == [var |-> None, include_advanced_details |-> FALSE,
           env |-> NoEnv]

NoProbe == [called |-> FALSE, arg |-> V_int, result |-> GetLength(V_int)]

Render(kind, table) ==
    [kind |-> kind, table |-> table, max_colwidth |-> opts.max_colwidth,
     max_rows |-> opts.max_rows]

Init ==
    /\ opts \in AmbientOptions
    /\ insp \in Inspectors(opts.max_rows)
    /\ pc = "idle"
    /\ call = NoCall
    /\ original = opts
    /\ enumerated = <<>>
    /\ global_vars = <<>>
    /\ data = <<>>
    /\ attr_idx = 0
    /\ rendered = <<>>
    /\ printed = <<>>
    /\ raised = NoExc
    /\ probe = NoProbe

\* __call__ up to the try statement, lines 86-97: the options are read, then
\* set one after the other, each set_option validating its value first
Call(var, include_advanced_details, env) ==
    /\ pc = "idle"
    /\ call' = [var |-> var, include_advanced_details |-> include_advanced_details,
                env |-> env]
    /\ original' = opts
    /\ IF ~ ValidColwidth(insp.max_str_length)
       THEN /\ raised' = Exc("ValueError", "set_option", 1)
            /\ pc' = "exit"
            /\ UNCHANGED <<opts, printed>>
       ELSE IF ~ ValidRows(insp.max_rows)
       THEN /\ opts' = [opts EXCEPT !.max_colwidth = insp.max_str_length]
            /\ raised' = Exc("ValueError", "set_option", 2)
            /\ pc' = "exit"
            /\ UNCHANGED printed
       ELSE /\ opts' = [max_colwidth |-> insp.max_str_length,
                        max_rows |-> insp.max_rows]
            /\ raised' = NoExc
            /\ IF var = None
               THEN /\ printed' = <<<<"User-defined and basic type global variables:">>>>
                    /\ pc' = "globals"
               ELSE /\ printed' = <<<<"Object Overview:">>>>
                    /\ pc' = "overview"
    /\ UNCHANGED <<insp, enumerated, global_vars, data, attr_idx, rendered, probe>>

\* view_var() and view_var(include_advanced_details=True), lines 272, 276
CallGlobals ==
    /\ pc = "idle"
    /\ \E adv \in BOOLEAN, env \in Envs : Call(None, adv, env)

\* view_var(some_variable) and
\* view_var(some_variable, include_advanced_details=True), lines 281, 285
CallObject ==
    /\ pc = "idle"
    /\ \E adv \in BOOLEAN, var \in Targets : Call(var, adv, NoEnv)

\* _display_globals, lines 152-187
DisplayGlobals ==
    /\ pc = "globals"
    /\ LET ns == Globals(call.env)
           kept == GlobalVars(ns, call.include_advanced_details, insp.exclude_names)
           built == GlobalRows(SortedVars(kept, insp.descending))
       IN /\ enumerated' = ns
          /\ global_vars' = kept
          /\ data' = built.rows
          /\ raised' = built.exc
          /\ rendered' = IF built.exc = NoExc
                         THEN Append(rendered, Render("globals", built.rows))
                         ELSE rendered
    /\ pc' = "finally"
    /\ UNCHANGED <<opts, insp, call, original, attr_idx, printed, probe>>

\* _display_overview, lines 105-150, and the print of line 97 after it
DisplayOverview ==
    /\ pc = "overview"
    /\ LET o == Overview(call.var)
       IN IF o.exc = NoExc
          THEN /\ rendered' = Append(rendered, Render("overview", o.record))
               /\ printed' = Append(printed, <<"Attributes and methods of", call.var.type>>)
               /\ attr_idx' = 1
               /\ pc' = "attributes"
               /\ UNCHANGED raised
          ELSE /\ raised' = o.exc
               /\ pc' = "finally"
               /\ UNCHANGED <<rendered, printed, attr_idx>>
    /\ UNCHANGED <<opts, insp, call, original, enumerated, global_vars, data, probe>>

\* one turn of the loop of _display_attributes, lines 191-223: the try of
\* line 193 holds the read and the whole building of the row, so an
\* AttributeError of either is caught (line 222), the diagnostic printed and
\* the row dropped; any other exception leaves the method
AttrStep ==
    /\ pc = "attributes"
    /\ attr_idx <= Len(Dir(call.var))
    /\ LET attr == Dir(call.var)[attr_idx]
           entry == call.var.attrs[attr]
           built == AttrRow(attr, entry.value)
       IN IF ~ AttrEligible(attr, call.include_advanced_details)
          THEN /\ attr_idx' = attr_idx + 1
               /\ UNCHANGED <<data, printed, raised, pc>>
          ELSE IF \/ entry.get = "AttributeError"
                  \/ entry.get = "ok" /\ built.exc = "AttributeError"
          THEN /\ printed' = Append(printed, <<"Attribute", attr, "is not accessible.">>)
               /\ attr_idx' = attr_idx + 1
               /\ UNCHANGED <<data, raised, pc>>
          ELSE IF entry.get # "ok"
          THEN /\ raised' = Exc(entry.get, "getattr", attr_idx)
               /\ pc' = "finally"
               /\ UNCHANGED <<data, printed, attr_idx>>
          ELSE IF built.exc # "none"
          THEN /\ raised' = Exc(built.exc, IF entry.value.callable THEN "signature"
                                           ELSE "_get_length", attr_idx)
               /\ pc' = "finally"
               /\ UNCHANGED <<data, printed, attr_idx>>
          ELSE /\ data' = Append(data, built.row)
               /\ attr_idx' = attr_idx + 1
               /\ UNCHANGED <<printed, raised, pc>>
    /\ UNCHANGED <<opts, insp, call, original, enumerated, global_vars, rendered, probe>>

\* the end of _display_attributes, lines 224-225
RenderAttributes ==
    /\ pc = "attributes"
    /\ attr_idx > Len(Dir(call.var))
    /\ rendered' = Append(rendered, Render("attributes", data))
    /\ pc' = "finally"
    /\ UNCHANGED <<opts, insp, call, original, enumerated, global_vars, data,
                   attr_idx, printed, raised, probe>>

\* the finally clause, lines 101-103; the exception in flight propagates
Finally ==
    /\ pc = "finally"
    /\ opts' = [max_colwidth |-> original.max_colwidth,
                max_rows |-> original.max_rows]
    /\ pc' = "exit"
    /\ UNCHANGED <<insp, call, original, enumerated, global_vars, data, attr_idx,
                   rendered, printed, raised, probe>>

\* the call has returned or raised: its frame and its records are discarded
\* and the session goes on
Return ==
    /\ pc = "exit"
    /\ pc' = "idle"
    /\ call' = NoCall
    /\ original' = opts
    /\ enumerated' = <<>>
    /\ global_vars' = <<>>
    /\ data' = <<>>
    /\ attr_idx' = 0
    /\ rendered' = <<>>
    /\ printed' = <<>>
    /\ raised' = NoExc
    /\ probe' = NoProbe
    /\ UNCHANGED <<opts, insp>>

\* inspector._get_length(v), called directly
GetLengthCall(v) ==
    /\ pc = "idle"
    /\ probe' = [called |-> TRUE, arg |-> v, result |-> GetLength(v)]
    /\ raised' = IF GetLength(v).exc = "none" THEN NoExc
                 ELSE Exc(GetLength(v).exc, "_get_length", 0)
    /\ pc' = "exit"
    /\ UNCHANGED <<opts, insp, call, original, enumerated, global_vars, data,
                   attr_idx, rendered, printed>>

Next ==
    \/ CallGlobals
    \/ CallObject
    \/ DisplayGlobals
    \/ DisplayOverview
    \/ AttrStep
    \/ RenderAttributes
    \/ Finally
    \/ Return
    \/ \E v \in Values : GetLengthCall(v)

Spec == Init /\ [][Next]_vars

----------------------------------------------------------------------------
(* Properties *)

RowNames(rows) == [i \in 1..Len(rows) |-> rows[i].Name]
Has(seq, x) == \E i \in 1..Len(seq) : seq[i] = x
Kinds == [i \in 1..Len(rendered) |-> rendered[i].kind]

\* a call of the inspector (not a direct call of a helper) that got past
\* the two set_option calls
Entered == pc # "idle" /\ ~ probe.called /\ raised[2] # "set_option"
GlobalsRan == Entered /\ call.var = None /\ pc \in {"finally", "exit"}
GlobalsRendered == GlobalsRan /\ Kinds = <<"globals">>
OverviewRan == Entered /\ call.var # None /\ pc \in {"attributes", "finally", "exit"}
AttributesRendered == OverviewRan /\ Kinds = <<"overview", "attributes">>

\* C1: when a call of the inspector exits, returning or raising, both display
\* options have the values they had just before the call.
C1_Restoration ==
    (pc = "exit" /\ ~ probe.called) => opts = original

\* the inclusion policy of C2 for one binding, written out on the name
C2_Policy(b) ==
    \/ call.include_advanced_details
    \/ /\ \A p \in insp.exclude_names :
             Len(p) > Len(b.name) \/ \E k \in 1..Len(p) : b.name[k] # p[k]
       /\ b.value.type \notin {"module", "function", "builtin_function_or_method"}
       /\ (b.name = <<>> \/ b.name[Len(b.name)] # 95)

\* C2: a binding of the enumerated namespace is kept, and is a row of the
\* rendered report, exactly when include_advanced_details is true or its name
\* starts with no excluded prefix, its value is no module, function or
\* built-in callable, and its name does not end with an underscore.
C2_InclusionPolicy ==
    GlobalsRan =>
        /\ \A i \in 1..Len(enumerated) :
              Has(Names(global_vars), enumerated[i].name) <=> C2_Policy(enumerated[i])
        /\ \A i \in 1..Len(global_vars) : Has(enumerated, global_vars[i])
        /\ GlobalsRendered =>
              /\ \A i \in 1..Len(enumerated) :
                    Has(RowNames(rendered[1].table), enumerated[i].name)
                        <=> C2_Policy(enumerated[i])
              /\ Len(rendered[1].table)
                    = Cardinality({i \in 1..Len(enumerated) : C2_Policy(enumerated[i])})

\* a report without advanced details of three bindings, one left out for its
\* trailing underscore, one for being a function, one shown
C2_Witness ==
    /\ GlobalsRendered
    /\ ~ call.include_advanced_details
    /\ Len(enumerated) = 3
    /\ \E i \in 1..3 : EndsWith(enumerated[i].name, Underscore)
    /\ \E i \in 1..3 : enumerated[i].value.isa = "function"
    /\ Len(rendered[1].table) = 1

\* C3: the namespace the global-scope report enumerates is the caller's: the
\* names considered are exactly the names bound where the inspector was called.
C3_CallerNamespace ==
    GlobalsRan => Names(enumerated) = Names(call.env.caller_globals)

\* the place of a name in the bindings kept
Place(name) == CHOOSE i \in 1..Len(global_vars) : global_vars[i].name = name

NoTies ==
    \A i, j \in 1..Len(global_vars) :
        Lower(global_vars[i].name) = Lower(global_vars[j].name) => i = j

\* C4 as stated: ascending by lower-cased name without the descending flag,
\* and with it the exact reverse of the ascending sequence, ties included.
C4_ExactReverse ==
    GlobalsRendered =>
        LET names == RowNames(rendered[1].table)
            asc == Names(SortedVars(global_vars, FALSE))
        IN /\ \A i, j \in 1..Len(asc) : i < j => ~ StrLess(Lower(asc[j]), Lower(asc[i]))
           /\ names = IF insp.descending THEN Reverse(asc) ELSE asc

\* C4, amended: the rows are the kept bindings ordered by lower-cased name,
\* ascending without the descending flag ("b", "A", "c" give A, b, c) and
\* descending with it; names equal ignoring case keep their namespace order
\* in both directions, so the descending sequence is the exact reverse of the
\* ascending one when no two kept names are equal ignoring case.
C4_SortOrder ==
    GlobalsRendered =>
        LET names == RowNames(rendered[1].table)
        IN /\ Len(names) = Len(global_vars)
           /\ \A i \in 1..Len(global_vars) : Has(names, global_vars[i].name)
           /\ \A i, j \in 1..Len(names) :
                 i < j =>
                    IF Lower(names[i]) = Lower(names[j])
                    THEN Place(names[i]) < Place(names[j])
                    ELSE IF insp.descending
                    THEN StrLess(Lower(names[j]), Lower(names[i]))
                    ELSE StrLess(Lower(names[i]), Lower(names[j]))
           /\ (~ insp.descending /\ Names(global_vars) = <<<<98>>, <<65>>, <<99>>>>)
                 => names = <<<<65>>, <<98>>, <<99>>>>
           /\ (insp.descending /\ NoTies)
                 => names = Reverse(Names(SortedVars(global_vars, FALSE)))

\* a descending report of three rows, two of them "a" and "A"
C4_Witness ==
    /\ GlobalsRendered
    /\ insp.descending
    /\ Len(rendered[1].table) = 3
    /\ Has(RowNames(rendered[1].table), <<97>>)
    /\ Has(RowNames(rendered[1].table), <<65>>)

\* the attribute loop has dealt with place i of dir(obj): it went past it,
\* or an exception rose there
Reached(i) ==
    /\ OverviewRan
    /\ Kinds # <<>>
    /\ i \in 1..Len(Dir(call.var))
    /\ \/ i < attr_idx
       \/ i = attr_idx /\ raised # NoExc /\ raised[3] = i

Eligible(attr) == call.include_advanced_details \/ attr[1] # 95

Readable(attr) == call.var.attrs[attr].get = "ok"

\* C5: an attribute whose read fails, whatever the failure, gets a diagnostic
\* line, is left out of the table alone, and does not end the call with a
\* raised failure: the others still appear, in directory order.
C5_ReadFailureRecovered ==
    \A i \in 1..Cardinality(AttrNames) :
        (Reached(i) /\ Eligible(Dir(call.var)[i]) /\ ~ Readable(Dir(call.var)[i])) =>
            LET attr == Dir(call.var)[i]
                Shown(a) == Eligible(a) /\ Readable(a)
            IN /\ Has(printed, <<"Attribute", attr, "is not accessible.">>)
               /\ ~ (raised # NoExc /\ raised[2] = "getattr" /\ raised[3] = i)
               /\ ~ Has(RowNames(data), attr)
               /\ AttributesRendered =>
                     RowNames(rendered[2].table) = SelectSeq(Dir(call.var), Shown)

\* C6: the overview never aborts: whatever the introspection steps answer,
\* the record is rendered with its seven fields, placeholders standing for
\* the steps that failed.
C6_OverviewNeverAborts ==
    OverviewRan =>
        /\ raised[2] # "overview"
        /\ Kinds # <<>>
        /\ Kinds[1] = "overview"
        /\ DOMAIN rendered[1].table
              = {"Type", "Module", "SourceFile", "FilePath", "SourceLines", "Size", "Doc"}
        /\ ~ call.var.has_code => rendered[1].table.SourceFile = "Source file not available"
        /\ call.var.getmodule = "none" => rendered[1].table.Module = "Unknown module"
        /\ call.var.getfile # "ok" => rendered[1].table.FilePath = "File not applicable"

\* C7: a name of the directory whose read succeeds is a row of the attribute
\* table exactly when include_advanced_details is true or the name does not
\* start with an underscore: so of the rows built so far, and of the table
\* rendered.
C7_UnderscoreFilter ==
    OverviewRan =>
        /\ \A i \in 1..Len(Dir(call.var)) :
              (i < attr_idx /\ Readable(Dir(call.var)[i])) =>
                 (Has(RowNames(data), Dir(call.var)[i])
                    <=> (call.include_advanced_details \/ Dir(call.var)[i][1] # 95))
        /\ AttributesRendered =>
              /\ rendered[2].table = data
              /\ \A attr \in DOMAIN call.var.attrs :
                    Readable(attr) =>
                       (Has(RowNames(rendered[2].table), attr)
                          <=> (call.include_advanced_details \/ attr[1] # 95))

\* C8: a call without a target renders exactly one table, the global-scope
\* report; a call with a target renders exactly two, the overview and then
\* the attribute report; the inspector's two overrides are in force at every
\* render.
C8_Dispatch ==
    /\ (Entered /\ pc = "exit") =>
          Kinds = IF call.var = None THEN <<"globals">>
                  ELSE <<"overview", "attributes">>
    /\ \A i \in 1..Len(rendered) :
          /\ rendered[i].max_colwidth = insp.max_str_length
          /\ rendered[i].max_rows = insp.max_rows

\* C9: _get_length returns the length of a value that supports the length
\* query and "-" for any other, and raises for no value.
C9_LengthNeverRaises ==
    probe.called =>
        /\ probe.result.exc = "none"
        /\ raised = NoExc
        /\ probe.result.val = IF probe.arg.sized = "no" THEN Dash
                              ELSE IntCell(probe.arg.n)

\* C10: every readable attribute that passes the name filter gets its row: a
\* callable is a "Method" with "-" for size and length, its documentation or
\* "No documentation available", and its signature, "N/A" standing for every
\* signature that cannot be had; any other value has its type name, "-" for
\* the signature, a two-decimal size, the extractor's length and its repr.
C10_RowClassification ==
    \A i \in 1..Cardinality(AttrNames) :
        (Reached(i) /\ Eligible(Dir(call.var)[i]) /\ Readable(Dir(call.var)[i])) =>
            LET attr == Dir(call.var)[i]
                v == call.var.attrs[attr].value
            IN IF v.callable
               THEN \E r \in 1..Len(data) :
                       /\ data[r].Name = attr
                       /\ data[r].Type = "Method"
                       /\ data[r].Size = Dash
                       /\ data[r].Len = Dash
                       /\ data[r].Value = (IF v.doc = "" THEN "No documentation available"
                                           ELSE v.doc)
                       /\ data[r].Signature = (IF v.sig = "ok" THEN v.sigstr ELSE "N/A")
               ELSE v.sized \in {"no", "yes"} =>
                    \E r \in 1..Len(data) :
                       /\ data[r].Name = attr
                       /\ data[r].Type = v.type
                       /\ data[r].Signature = "-"
                       /\ data[r].Size[1] = "num"
                       /\ data[r].Size[2] >= 0
                       /\ data[r].Size[3] \in 0..99
                       /\ data[r].Len = (IF v.sized = "no" THEN Dash ELSE IntCell(v.n))
                       /\ data[r].Value = v.repr

====
